---- MODULE Spec2Model ----
(***************************************************************************)
(* Model of the zerog-exporter core:                                       *)
(*   - util.BlockTimeCalculator, the bounded history of block intervals;   *)
(*   - the validator liveness scan of UnifiedCollector.collectCosmosMetrics *)
(*     and the zero-override applied to what it reports.                   *)
(* Times and durations are integers (one unit = one tick of the clock).    *)
(***************************************************************************)
EXTENDS Integers, Sequences, FiniteSets, Bags, TLC

\* ------------------------------------------------------------------ bounds
\* Number of UpdateBlockTime calls explored on one calculator.
MaxUpdates == 4
\* Greatest block height the node status reports to the estimator.
MaxHeight == 4
\* Capacity given to NewBlockTimeCalculator in Spec (small, so that eviction happens).
HistorySize == 2
\* Number of UpdateBlockTime calls explored in SpecStable.
MaxStableUpdates == 11

\* Greatest latest height of the scrape explored in SpecScan.
MaxScanHeight == 3
\* Number of configured Ethereum addresses.
MaxEthAddresses == 1
\* How far from the scan window's size the latest height lies.
MaxOver == 2
\* Number of UpdateBlockTime calls between which Reset and
\* SetInitialBlockTime are called.
MaxResetUpdates == 3
\* Number of Collect invocations that overlap on one collector.
MaxScrapes == 2
\* Updates after which no further scrape request arrives.
MaxOverlapUpdates == 2
\* Length of cfg.Chains.
MaxChains == 3
\* Entries of a wallet answer (balances, delegations, rewards, unbonding
\* responses) and proposals of a governance answer.
MaxEntries == 2

\* Heights the node status may report (0: a node that holds no block yet).
Heights == 0..MaxHeight
\* Ticks elapsed between two scrapes (time.Now() is monotonic).
Deltas == {0, 1, 3}
\* Ticks elapsed between two scrapes in SpecStable.
StableDeltas == {0, 6, 10}
\* Arguments of EstimateBlocksInDuration.
Durations == {-7, 7}
\* Arguments of EstimateTimeForBlocks.
BlockCounts == {0, 2}

\* ------------------------------------------------------- program constants
\* NewBlockTimeCalculator: the capacity used for a non-positive size.
DefaultHistorySize == 100
\* NewUnifiedCollector: the capacity the collector asks for.
CollectorHistorySize == 100
\* IsBlockTimeStable: the least number of samples.
StableMinSamples == 10

\* collectCosmosMetrics: the number of heights the liveness scan covers.
ScanWindow == 100
\* block_id_flag of a signature that counts as signed / active.
BlockIDFlagCommit == 4
\* block_id_flag of a signature that counts as absent / inactive.
BlockIDFlagAbsent == 5
\* block_id_flag of a signature that is neither (1 = precommit).
BlockIDFlagOther == 1

VARIABLES
    btc,         \* the BlockTimeCalculator: lastBlockTime, lastBlockHeight,
                 \* blockTimeHistory, maxHistorySize
    clock,       \* the wall clock: the blockTime of the latest UpdateBlockTime call
    updates,     \* number of UpdateBlockTime calls since construction
    obsTimes,    \* the blockTime arguments of those calls, in call order
    fedHeight,   \* the height argument of the latest call
    increasing,  \* every call so far had a height greater than the call before it
    positive,    \* every call so far had a height > 0
    ret,         \* the latest call: [op, arg, val]
    pc,          \* position of collectCosmosMetrics in one scrape
    status,      \* strconv.ParseInt of the status' latest height: [ok, height]
    latestBlock, \* the chain's block at the latest height
    i,           \* index of the scan loop
    validatorStats, \* the scan's counters, one record per tracked validator
    scanned,     \* the fetches of the scan that succeeded: [height, signers, proposer]
    pending,     \* validators the per-validator loop has not visited yet
    sink,        \* the observations sent to the metric channel (a bag)
    err,         \* what collectCosmosMetrics returns: "nil" or an error
    fetches,     \* the GetBlock calls of the scrape, in call order: [height, by]
    chainID,     \* cfg.ChainID of the collector
    collect,     \* position of Collect: idle, waiting (in g.Wait), returned, panic
    expired,     \* the 5 s deadline of Collect's context has passed
    pcEth,       \* position of collectEthereumMetrics
    ethIdx,      \* index of the loop over c.ethereumConfig.EthereumAddresses
    ethCalls,    \* number of JSON-RPC calls collectEthereumMetrics has made
    walletIdx,   \* index of the loop over c.cfg.Wallets
    scrapes,     \* the Collect invocations in progress on one collector
    chains,      \* cfg.Chains: the chains of the configuration file
    mainIdx,     \* index of main's loop over cfg.Chains
    chain,       \* main's loop variable: the chain it holds
    collectors   \* the collectors main has registered: what each cfg points to

estVars == <<btc, clock, updates, obsTimes, fedHeight, increasing, positive, ret>>

scanVars == <<pc, status, latestBlock, i, validatorStats, scanned, pending, sink, err,
              fetches>>

coVars == <<chainID, collect, expired, pcEth, ethIdx, ethCalls>>

ovVars == <<walletIdx, scrapes, chains, mainIdx, chain, collectors>>

vars == <<estVars, scanVars, coVars, ovVars>>

\* ----------------------------------------------------------------- helpers
Abs(x) == IF x < 0 THEN -x ELSE x

Sign(x) == IF x < 0 THEN -1 ELSE IF x > 0 THEN 1 ELSE 0

\* Go's integer division: the quotient truncated toward zero (b # 0).
TruncDiv(a, b) == Sign(a) * Sign(b) * (Abs(a) \div Abs(b))

Min2(a, b) == IF a < b THEN a ELSE b

RECURSIVE SumSeq(_)
SumSeq(s) == IF s = <<>> THEN 0 ELSE Head(s) + SumSeq(Tail(s))

\* ---------------------------------------------------- BlockTimeCalculator
NewBlockTimeCalculator(maxHistorySize) ==
    [lastBlockTime    |-> 0,
     lastBlockHeight  |-> 0,
     blockTimeHistory |-> <<>>,
     maxHistorySize   |-> IF maxHistorySize <= 0 THEN DefaultHistorySize
                                                 ELSE maxHistorySize]

\* UpdateBlockTime without the height comparison of its guard.
UpdateBlockTime_NoHeightGuard(b, height, blockTime) ==
    LET appended == Append(b.blockTimeHistory, blockTime - b.lastBlockTime)
        history  ==
            IF b.lastBlockHeight > 0
            THEN IF Len(appended) > b.maxHistorySize THEN Tail(appended)
                                                     ELSE appended
            ELSE b.blockTimeHistory
    IN [b EXCEPT !.blockTimeHistory = history,
                 !.lastBlockTime    = blockTime,
                 !.lastBlockHeight  = height]

\* UpdateBlockTime evicting at len >= maxHistorySize (one entry too early).
UpdateBlockTime_EvictEarly(b, height, blockTime) ==
    LET appended == Append(b.blockTimeHistory, blockTime - b.lastBlockTime)
        history  ==
            IF b.lastBlockHeight > 0 /\ height > b.lastBlockHeight
            THEN IF Len(appended) >= b.maxHistorySize THEN Tail(appended)
                                                      ELSE appended
            ELSE b.blockTimeHistory
    IN [b EXCEPT !.blockTimeHistory = history,
                 !.lastBlockTime    = blockTime,
                 !.lastBlockHeight  = height]

\* UpdateBlockTime dropping the newest entry instead of the oldest.
UpdateBlockTime_EvictNewest(b, height, blockTime) ==
    LET appended == Append(b.blockTimeHistory, blockTime - b.lastBlockTime)
        history  ==
            IF b.lastBlockHeight > 0 /\ height > b.lastBlockHeight
            THEN IF Len(appended) > b.maxHistorySize
                 THEN SubSeq(appended, 1, Len(appended) - 1)
                 ELSE appended
            ELSE b.blockTimeHistory
    IN [b EXCEPT !.blockTimeHistory = history,
                 !.lastBlockTime    = blockTime,
                 !.lastBlockHeight  = height]

UpdateBlockTime(b, height, blockTime) ==
    LET timeDiff == blockTime - b.lastBlockTime
        appended == Append(b.blockTimeHistory, timeDiff)
        history  ==
            IF b.lastBlockHeight > 0 /\ height > b.lastBlockHeight
            THEN IF Len(appended) > b.maxHistorySize THEN Tail(appended)
                                                     ELSE appended
            ELSE b.blockTimeHistory
    IN [b EXCEPT !.blockTimeHistory = history,
                 !.lastBlockTime    = blockTime,
                 !.lastBlockHeight  = height]

GetAverageBlockTime(b) ==
    IF Len(b.blockTimeHistory) = 0 THEN 0
    ELSE TruncDiv(SumSeq(b.blockTimeHistory), Len(b.blockTimeHistory))

GetLatestBlockTime(b) ==
    IF Len(b.blockTimeHistory) = 0 THEN 0
    ELSE b.blockTimeHistory[Len(b.blockTimeHistory)]

\* The loop of GetBlockTimeStats over history[k..]: acc = [total, min, max].
RECURSIVE StatsLoop(_, _, _)
StatsLoop(h, k, acc) ==
    IF k > Len(h) THEN acc
    ELSE StatsLoop(h, k + 1,
            [total |-> acc.total + h[k],
             min   |-> IF h[k] < acc.min THEN h[k] ELSE acc.min,
             max   |-> IF h[k] > acc.max THEN h[k] ELSE acc.max])

\* GetBlockTimeStats with min and max started at zero instead of history[0].
GetBlockTimeStats_FromZero(b) ==
    IF Len(b.blockTimeHistory) = 0 THEN [avg |-> 0, min |-> 0, max |-> 0]
    ELSE LET h   == b.blockTimeHistory
             acc == StatsLoop(h, 1, [total |-> 0, min |-> 0, max |-> 0])
         IN [avg |-> TruncDiv(acc.total, Len(h)), min |-> acc.min, max |-> acc.max]

GetBlockTimeStats(b) ==
    IF Len(b.blockTimeHistory) = 0 THEN [avg |-> 0, min |-> 0, max |-> 0]
    ELSE LET h   == b.blockTimeHistory
             acc == StatsLoop(h, 1, [total |-> 0, min |-> h[1], max |-> h[1]])
         IN [avg |-> TruncDiv(acc.total, Len(h)), min |-> acc.min, max |-> acc.max]

\* EstimateBlocksInDuration with the operands of the division exchanged.
EstimateBlocksInDuration_Swapped(b, duration) ==
    LET avgBlockTime == GetAverageBlockTime(b)
    IN IF avgBlockTime = 0 THEN 0 ELSE TruncDiv(avgBlockTime, duration)

EstimateBlocksInDuration(b, duration) ==
    LET avgBlockTime == GetAverageBlockTime(b)
    IN IF avgBlockTime = 0 THEN 0 ELSE TruncDiv(duration, avgBlockTime)

EstimateTimeForBlocks(b, blockCount) ==
    GetAverageBlockTime(b) * blockCount

\* float64(num) / float64(den) < 0.5 for den # 0 (exact below 2^53).
RatioBelowHalf(num, den) ==
    IF den > 0 THEN 2 * num < den ELSE 2 * num > den

\* IsBlockTimeStable without the sample-count check.
IsBlockTimeStable_NoMinSamples(b) ==
    LET s == GetBlockTimeStats(b)
    IN IF s.avg = 0 THEN FALSE
       ELSE RatioBelowHalf(s.max - s.min, s.avg)

IsBlockTimeStable(b) ==
    IF Len(b.blockTimeHistory) < StableMinSamples THEN FALSE
    ELSE LET s == GetBlockTimeStats(b)
         IN IF s.avg = 0 THEN FALSE
            ELSE RatioBelowHalf(s.max - s.min, s.avg)

\* SetInitialBlockTime: the history becomes the one given interval and the
\* baseline time the current time; the baseline height is left alone.
SetInitialBlockTime(b, blockTime, now) ==
    [b EXCEPT !.blockTimeHistory = <<blockTime>>,
              !.lastBlockTime    = now]

\* Reset leaving the baseline height in place.
Reset_KeepsHeight(b) ==
    [b EXCEPT !.blockTimeHistory = <<>>,
              !.lastBlockTime    = 0]

\* Reset: the history is emptied, baseline time and height are zeroed.
Reset(b) ==
    [b EXCEPT !.blockTimeHistory = <<>>,
              !.lastBlockTime    = 0,
              !.lastBlockHeight  = 0]

\* ------------------------------------------------------ estimator actions
Call(op, arg, val) == [op |-> op, arg |-> arg, val |-> val]

InitEstimator(size) ==
    /\ btc = NewBlockTimeCalculator(size)
    /\ clock = 0
    /\ updates = 0
    /\ obsTimes = <<>>
    /\ fedHeight = 0
    /\ increasing = TRUE
    /\ positive = TRUE
    /\ ret = Call("NewBlockTimeCalculator", size, 0)

\* One scrape feeds the estimator: collectCosmosMetrics passes the parsed
\* latest height and time.Now(). ret.val keeps the height recorded before.
DoUpdate(height, d) ==
    /\ clock' = clock + d
    /\ btc' = UpdateBlockTime(btc, height, clock + d)
    /\ updates' = updates + 1
    /\ obsTimes' = Append(obsTimes, clock + d)
    /\ fedHeight' = height
    /\ increasing' = (increasing /\ (updates = 0 \/ height > fedHeight))
    /\ positive' = (positive /\ height > 0)
    /\ ret' = Call("UpdateBlockTime", height, btc.lastBlockHeight)

Update ==
    /\ updates < MaxUpdates
    /\ \E height \in Heights, d \in Deltas : DoUpdate(height, d)
    /\ UNCHANGED <<scanVars, coVars, ovVars>>

Query(op, arg, val) ==
    /\ ret' = Call(op, arg, val)
    /\ UNCHANGED <<btc, clock, updates, obsTimes, fedHeight, increasing, positive>>
    /\ UNCHANGED <<scanVars, coVars, ovVars>>

AverageBlockTime == Query("GetAverageBlockTime", 0, GetAverageBlockTime(btc))

LatestBlockTime == Query("GetLatestBlockTime", 0, GetLatestBlockTime(btc))

BlockTimeStats == Query("GetBlockTimeStats", 0, GetBlockTimeStats(btc))

BlocksInDuration ==
    \E d \in Durations :
        Query("EstimateBlocksInDuration", d, EstimateBlocksInDuration(btc, d))

TimeForBlocks ==
    \E k \in BlockCounts :
        Query("EstimateTimeForBlocks", k, EstimateTimeForBlocks(btc, k))

BlockTimeStable == Query("IsBlockTimeStable", 0, IsBlockTimeStable(btc))

\* ------------------------------------------- collectCosmosMetrics: data
\* cfg.Validators: the tracked consensus addresses, in configuration order.
Validators == <<"v1", "v2">>

Tracked == {Validators[k] : k \in 1..Len(Validators)}

Sig(addr, flag) == [validator_address |-> addr, block_id_flag |-> flag]

\* Signature lists a block may carry: v1 committed, absent, with another
\* flag, or without an entry; v2 committed or absent; "x" is not tracked.
SigLists ==
    { s1 \o <<Sig("v2", f2)>> \o <<Sig("x", BlockIDFlagCommit)>> :
        s1 \in {<<>>} \cup {<<Sig("v1", f1)>> :
                    f1 \in {BlockIDFlagCommit, BlockIDFlagAbsent, BlockIDFlagOther}},
        f2 \in {BlockIDFlagCommit, BlockIDFlagAbsent} }

\* What GetBlock decodes: the header's proposer and the last commit's signatures.
Blocks == [proposer_address : {"v1", "x"}, signatures : SigLists]

ZeroStats ==
    [signedBlocks |-> 0, missedBlocks |-> 0, consecutiveMissed |-> 0,
     maxConsecutiveMissed |-> 0, proposals |-> 0]

\* The map built before the scan: one zero record per configured address.
NewValidatorStats == [v \in Tracked |-> ZeroStats]

\* Whether sigs[k..] holds any entry of validatorAddr, whatever its flag.
HasSigned_AnyEntry(sigs, validatorAddr, k) ==
    \E j \in k..Len(sigs) : sigs[j].validator_address = validatorAddr

\* ------------------------------------------ collectCosmosMetrics: helpers
\* The signature loop of the scan from entry k on: true at the first entry
\* of validatorAddr whose flag is 4.
RECURSIVE HasSigned(_, _, _)
HasSigned(sigs, validatorAddr, k) ==
    IF k > Len(sigs) THEN FALSE
    ELSE IF sigs[k].validator_address = validatorAddr
            /\ sigs[k].block_id_flag = BlockIDFlagCommit
         THEN TRUE
         ELSE HasSigned(sigs, validatorAddr, k + 1)

\* CountSignature leaving missedBlocks alone on a miss.
CountSignature_NoMissedIncrement(st, hasSigned) ==
    IF hasSigned
    THEN [st EXCEPT !.signedBlocks = @ + 1, !.consecutiveMissed = 0]
    ELSE [st EXCEPT !.consecutiveMissed = @ + 1,
                    !.maxConsecutiveMissed =
                        IF st.consecutiveMissed + 1 > @
                        THEN st.consecutiveMissed + 1 ELSE @]

\* CountSignature keeping the running streak on a signed height.
CountSignature_NoStreakReset(st, hasSigned) ==
    IF hasSigned
    THEN [st EXCEPT !.signedBlocks = @ + 1]
    ELSE [st EXCEPT !.missedBlocks = @ + 1,
                    !.consecutiveMissed = @ + 1,
                    !.maxConsecutiveMissed =
                        IF st.consecutiveMissed + 1 > @
                        THEN st.consecutiveMissed + 1 ELSE @]

\* The counters of one validator after one fetched block.
CountSignature(st, hasSigned) ==
    IF hasSigned
    THEN [st EXCEPT !.signedBlocks = @ + 1, !.consecutiveMissed = 0]
    ELSE [st EXCEPT !.missedBlocks = @ + 1,
                    !.consecutiveMissed = @ + 1,
                    !.maxConsecutiveMissed =
                        IF st.consecutiveMissed + 1 > @
                        THEN st.consecutiveMissed + 1 ELSE @]

\* The proposer check crediting every tracked validator with the proposal.
CountProposal_Everyone(stats, block) ==
    IF block.proposer_address \in DOMAIN stats
    THEN [v \in DOMAIN stats |-> [stats[v] EXCEPT !.proposals = @ + 1]]
    ELSE stats

\* The proposer check: the proposer's record, if tracked, gains a proposal.
CountProposal(stats, block) ==
    IF block.proposer_address \in DOMAIN stats
    THEN [stats EXCEPT ![block.proposer_address].proposals = @ + 1]
    ELSE stats

\* The body of the scan loop for one fetched block.
ScanBlock(stats, block) ==
    LET proposed == CountProposal(stats, block)
    IN [v \in DOMAIN proposed |->
            CountSignature(proposed[v], HasSigned(block.signatures, v, 1))]

\* The active-status loop from entry k on: the first entry of addr decides,
\* 1 for flag 4, otherwise the initial 0.
RECURSIVE ActiveIn(_, _, _)
ActiveIn(sigs, addr, k) ==
    IF k > Len(sigs) THEN 0
    ELSE IF sigs[k].validator_address = addr
         THEN IF sigs[k].block_id_flag = BlockIDFlagCommit THEN 1 ELSE 0
         ELSE ActiveIn(sigs, addr, k + 1)

\* validatorActive: 0.0 unless the latest block was fetched and says 1.0.
ValidatorActive(parsed, fetched, block, addr) ==
    IF parsed /\ fetched THEN ActiveIn(block.signatures, addr, 1) ELSE 0

\* OverrideMissed zeroing the value of an active validator instead.
OverrideMissed_Inverted(validatorActive, value) ==
    IF validatorActive = 1 THEN 0 ELSE value

\* A validator that is not active reports 0 instead of the scan's value.
OverrideMissed(validatorActive, value) ==
    IF validatorActive = 0 THEN 0 ELSE value

\* An observation: the metric, its address label ("" for a chain-level
\* metric) and its value, the quotient value / per.
Obs(name, address, value) ==
    [name |-> name, address |-> address, value |-> value, per |-> 1]

ObsRatio(name, num, den) ==
    [name |-> name, address |-> "", value |-> num, per |-> den]

\* Describe: the descriptors the collector announces to the registry.
Describe ==
    {"cosmosBlockTime", "cosmosAvgBlockTime", "cosmosTimeSinceLastBlock",
     "bondedTokens", "notBondedTokens", "communityPool", "supplyTotal",
     "inflation", "annualProvisions",
     "walletBalance", "walletDelegations", "walletRewards", "walletUnbonding",
     "validatorTokens", "validatorCommissionRate", "validatorCommission",
     "validatorRewards", "validatorMissedBlocks", "validatorRank",
     "validatorActive", "validatorStatus", "validatorJailedDesc",
     "validatorDelegatorShares",
     "validatorsTotal", "validatorsActive", "validatorsInactive",
     "validatorsBondedRatio",
     "paramsSignedBlocksWindow", "paramsMinSignedPerWindow",
     "paramsDowntimeJailDuration", "paramsSlashFractionDoubleSign",
     "paramsSlashFractionDowntime", "paramsMaxValidators",
     "paramsBaseProposerReward", "paramsBonusProposerReward",
     "consensusProposalChain", "consensusProposalReceiveCount",
     "tdSignedBlocks", "tdMissedBlocks", "tdConsecutiveMissed",
     "tdValidatorActive", "tdValidatorJailed", "tdTimeSinceLastBlock",
     "ethBlockNumber", "ethValidatorBalance", "ethStakingContract",
     "ethTotalValidators", "ethActiveValidators", "ethStakingPool",
     "ethMaxValidators", "ethValidatorCount"}

\* ch <- metric, for each metric of the sequence obs.
RECURSIVE Emit(_, _)
Emit(s, obs) ==
    IF obs = <<>> THEN s ELSE Emit(s (+) SetToBag({Head(obs)}), Tail(obs))

\* The counting loop over the latest block's signatures, with every entry
\* that is not COMMIT counted as inactive.
CountSignatures_NonCommitInactive(sigs) ==
    [total    |-> Len(sigs),
     active   |-> Cardinality({k \in 1..Len(sigs) :
                        sigs[k].block_id_flag = BlockIDFlagCommit}),
     inactive |-> Cardinality({k \in 1..Len(sigs) :
                        sigs[k].block_id_flag # BlockIDFlagCommit})]

\* The counting loop over the latest block's signatures: every entry counts
\* toward total, flag 4 toward active, flag 5 toward inactive.
CountSignatures(sigs) ==
    [total    |-> Len(sigs),
     active   |-> Cardinality({k \in 1..Len(sigs) :
                        sigs[k].block_id_flag = BlockIDFlagCommit}),
     inactive |-> Cardinality({k \in 1..Len(sigs) :
                        sigs[k].block_id_flag = BlockIDFlagAbsent})]

\* The four aggregate observations; the ratio is 0 when there is no entry.
AggregateObs(sigs) ==
    LET n == CountSignatures(sigs)
    IN <<Obs("validatorsTotal", "", n.total),
         Obs("validatorsActive", "", n.active),
         Obs("validatorsInactive", "", n.inactive),
         IF n.total > 0 THEN ObsRatio("validatorsBondedRatio", n.active, n.total)
                        ELSE Obs("validatorsBondedRatio", "", 0)>>

\* c.client.GetBlock(height) is called by the step named by.
Fetch(height, by) == [height |-> height, by |-> by]

\* No wallet loop, no other Collect invocation and no main are modelled.
NoWallet == walletIdx = 0
NoOverlap == scrapes = <<>>
NoMain ==
    /\ chains = <<>>
    /\ mainIdx = 0
    /\ chain = ""
    /\ collectors = <<>>

NoOther == NoWallet /\ NoOverlap /\ NoMain

CollectIdle ==
    /\ chainID = "other"
    /\ collect = "idle"
    /\ expired = FALSE
    /\ pcEth = "idle"
    /\ ethIdx = 0
    /\ ethCalls = 0

\* Collect is not running (collectCosmosMetrics is exercised on its own).
NoCollect == NoOther /\ CollectIdle

\* ------------------------------------------ collectCosmosMetrics: actions
\* No scrape is running (the estimator is exercised on its own).
ScanIdle ==
    /\ pc = "idle"
    /\ status = [ok |-> FALSE, height |-> 0]
    /\ latestBlock = [proposer_address |-> "x", signatures |-> <<>>]
    /\ i = 0
    /\ validatorStats = NewValidatorStats
    /\ scanned = <<>>
    /\ pending = {}
    /\ sink = EmptyBag
    /\ err = "nil"
    /\ fetches = <<>>

NoScrape == ScanIdle /\ NoCollect

\* The states a status answer can leave: an unparsable height or a height.
Statuses ==
    {[ok |-> FALSE, height |-> 0]} \cup {[ok |-> TRUE, height |-> h] : h \in 0..MaxScanHeight}

\* Collect has just started collectCosmosMetrics on a new collector.
InitScan ==
    /\ InitEstimator(CollectorHistorySize)
    /\ pc = "status"
    /\ status = [ok |-> FALSE, height |-> 0]
    /\ latestBlock \in Blocks
    /\ i = 0
    /\ validatorStats = NewValidatorStats
    /\ scanned = <<>>
    /\ pending = {}
    /\ sink = EmptyBag
    /\ err = "nil"
    /\ fetches = <<>>
    /\ NoCollect

\* GetStatus failed, the block time being sent all the same.
StatusFails_EmitsBlockTime ==
    /\ pc = "status"
    /\ pc' = "done"
    /\ err' = "status"
    /\ sink' = Emit(sink, <<Obs("cosmosBlockTime", "", clock)>>)
    /\ UNCHANGED <<estVars, ovVars, coVars, status, latestBlock, i, validatorStats, scanned,
                   pending, fetches>>

\* GetStatus failed: the error is logged and returned.
StatusFails ==
    /\ pc = "status"
    /\ pc' = "done"
    /\ err' = "status"
    /\ UNCHANGED <<estVars, ovVars, coVars, status, latestBlock, i, validatorStats, scanned,
                   pending, sink, fetches>>

\* GetStatus answered: block time is emitted and the estimator is fed when
\* the height parses.
StatusAnswersWith(st) ==
    /\ pc = "status"
    /\ status' = st
    /\ IF st.ok THEN DoUpdate(st.height, 1)
                ELSE /\ clock' = clock + 1
                     /\ UNCHANGED <<btc, updates, obsTimes, fedHeight,
                                    increasing, positive, ret>>
    /\ pc' = "aggregate"
    /\ UNCHANGED <<coVars, ovVars, latestBlock, i, validatorStats, scanned, pending, sink, err,
                   fetches>>

\* GetStatus answers with some status.
StatusAnswers ==
    /\ pc = "status"
    /\ \E st \in Statuses : StatusAnswersWith(st)

\* Validator statistics from the latest block's signatures; fetched tells
\* whether GetBlock succeeded.
AggregateStats ==
    /\ pc = "aggregate"
    /\ \E fetched \in BOOLEAN :
        sink' = Emit(sink, AggregateObs(
                    IF status.ok /\ fetched THEN latestBlock.signatures ELSE <<>>))
    /\ fetches' = IF status.ok THEN Append(fetches, Fetch(status.height, "aggregate"))
                               ELSE fetches
    /\ pc' = "scan"
    /\ i' = 0
    /\ validatorStats' = NewValidatorStats
    /\ UNCHANGED <<estVars, ovVars, coVars, status, latestBlock, scanned, pending, err>>

\* The scan loop without its bound of 100 iterations.
ScanContinues_NoWindow == status.ok /\ status.height - i > 0

\* The scan loop runs while i < 100 and currentHeight - i > 0.
ScanContinues == status.ok /\ i < ScanWindow /\ status.height - i > 0

\* One iteration whose GetBlock failed, counted as a miss of every validator.
ScanFetchFails_CountsMiss ==
    /\ pc = "scan"
    /\ ScanContinues
    /\ i' = i + 1
    /\ validatorStats' = [v \in DOMAIN validatorStats |->
                                CountSignature(validatorStats[v], FALSE)]
    /\ fetches' = Append(fetches, Fetch(status.height - i, "scan"))
    /\ UNCHANGED <<estVars, ovVars, coVars, pc, status, latestBlock, scanned, pending, sink, err>>

\* One iteration whose GetBlock failed: the height is skipped.
ScanFetchFails ==
    /\ pc = "scan"
    /\ ScanContinues
    /\ i' = i + 1
    /\ fetches' = Append(fetches, Fetch(status.height - i, "scan"))
    /\ UNCHANGED <<estVars, ovVars, coVars, pc, status, latestBlock, validatorStats, scanned,
                   pending, sink, err>>

\* One iteration whose GetBlock succeeded: the latest height yields the
\* latest block, a lower height any block.
ScanFetchesBlock(block) ==
    /\ pc = "scan"
    /\ ScanContinues
    /\ validatorStats' = ScanBlock(validatorStats, block)
    /\ scanned' = Append(scanned,
            [height   |-> status.height - i,
             signers  |-> {v \in Tracked : \E k \in 1..Len(block.signatures) :
                             block.signatures[k] = Sig(v, BlockIDFlagCommit)},
             proposer |-> block.proposer_address])
    /\ i' = i + 1
    /\ fetches' = Append(fetches, Fetch(status.height - i, "scan"))
    /\ UNCHANGED <<estVars, ovVars, coVars, pc, status, latestBlock, pending, sink, err>>

\* GetBlock answers the iteration's fetch with some block of the chain.
ScanFetches ==
    /\ pc = "scan"
    /\ \E block \in Blocks :
        /\ i = 0 => block = latestBlock
        /\ ScanFetchesBlock(block)

\* After the loop: the first validator's totals, its active status from a
\* fresh GetBlock of the latest height, the override, and the chain-level
\* signed / missed / consecutive-missed observations.
FirstValidator ==
    /\ pc = "scan"
    /\ ~ScanContinues
    /\ \E fetched \in BOOLEAN :
        LET firstValidator == Validators[1]
            stats == validatorStats[firstValidator]
            validatorActive ==
                ValidatorActive(status.ok, fetched, latestBlock, firstValidator)
            height == IF status.ok THEN status.height ELSE 0
        IN sink' = Emit(sink,
                <<Obs("tdUp", "", 1),
                  Obs("tdNodeHeight", "", height),
                  Obs("tdBlocksBehind", "", 0),
                  Obs("tdSignedBlocks", "", stats.signedBlocks),
                  Obs("tdMissedBlocks", "",
                      OverrideMissed(validatorActive, stats.missedBlocks)),
                  Obs("tdConsecutiveMissed", "",
                      OverrideMissed(validatorActive, stats.maxConsecutiveMissed)),
                  Obs("tdValidatorActive", "", 1),
                  Obs("tdValidatorJailed", "", 0),
                  Obs("tdTimeSinceLastBlock", "", 0)>>)
    /\ fetches' = IF status.ok THEN Append(fetches, Fetch(status.height, "first"))
                               ELSE fetches
    /\ pc' = "validators"
    /\ UNCHANGED <<estVars, ovVars, coVars, status, latestBlock, i, validatorStats, scanned, pending, err>>

\* GetValidators failed: the error is logged and returned.
ValidatorsFail ==
    /\ pc = "validators"
    /\ pc' = "done"
    /\ err' = "validators"
    /\ UNCHANGED <<estVars, ovVars, coVars, status, latestBlock, i, validatorStats, scanned,
                   pending, sink, fetches>>

\* GetValidators answered: the per-validator loop starts.
ValidatorsAnswer ==
    /\ pc = "validators"
    /\ pc' = "each"
    /\ pending' = DOMAIN validatorStats
    /\ UNCHANGED <<estVars, ovVars, coVars, status, latestBlock, i, validatorStats, scanned, sink, err,
                   fetches>>

\* One iteration of the per-validator loop (a map is ranged over in any
\* order): active status from a fresh GetBlock, override, observations.
EachValidator ==
    /\ pc = "each"
    /\ \E validatorAddr \in pending, fetched \in BOOLEAN :
        LET stats == validatorStats[validatorAddr]
            validatorActive ==
                ValidatorActive(status.ok, fetched, latestBlock, validatorAddr)
        IN /\ sink' = Emit(sink,
                    <<Obs("validatorMissedBlocks", validatorAddr,
                          OverrideMissed(validatorActive, stats.missedBlocks)),
                      Obs("validatorActive", validatorAddr, validatorActive)>>)
           /\ pending' = pending \ {validatorAddr}
    /\ fetches' = IF status.ok THEN Append(fetches, Fetch(status.height, "each"))
                               ELSE fetches
    /\ UNCHANGED <<estVars, ovVars, coVars, pc, status, latestBlock, i, validatorStats, scanned, err>>

\* The loop is over: the first validator's proposals are emitted.
Finish ==
    /\ pc = "each"
    /\ pending = {}
    /\ sink' = Emit(sink,
            <<Obs("consensusProposalChain", "", validatorStats[Validators[1]].proposals)>>)
    /\ pc' = "done"
    /\ UNCHANGED <<estVars, ovVars, coVars, status, latestBlock, i, validatorStats, scanned, pending, err,
                   fetches>>

NextScan ==
    \/ StatusFails
    \/ StatusAnswers
    \/ AggregateStats
    \/ ScanFetchFails
    \/ ScanFetches
    \/ FirstValidator
    \/ ValidatorsFail
    \/ ValidatorsAnswer
    \/ EachValidator
    \/ Finish

SpecScan == InitScan /\ [][NextScan]_vars

\* ------------------------------------------------ collectEthereumMetrics
\* The chain for which the Ethereum metrics are collected.
GalileoTestnet == "0g-galileo-testnet"

\* c.ethereumConfig.EthereumAddresses and c.ethereumConfig.StakingContract.
EthereumAddresses == SubSeq(<<"a1", "a2", "a3">>, 1, MaxEthAddresses)

StakingContract == "sc"

\* Strings are sequences of characters. What a JSON-RPC call can decode into
\* its result string: nothing, one character, a bare prefix, a hex number,
\* and a prefix followed by a character that is no hex digit.
EthStrings ==
    {<<>>, <<"0">>, <<"0", "x">>, <<"0", "x", "1", "f">>, <<"0", "x", "z">>}

\* A call's outcome: an error, or a decoded string.
EthAnswers ==
    {[failed |-> TRUE, result |-> <<>>]}
        \cup {[failed |-> FALSE, result |-> r] : r \in EthStrings}

HexDigit == [c \in {"0", "1", "f"} |-> CASE c = "0" -> 0 [] c = "1" -> 1 [] c = "f" -> 15]

\* strconv.ParseInt(s, 16, 64): an error for the empty string and for a
\* character that is no hex digit, else the number.
RECURSIVE HexFold(_, _)
HexFold(s, acc) ==
    IF s = <<>> THEN acc ELSE HexFold(Tail(s), 16 * acc + HexDigit[Head(s)])

ParseHex(s) ==
    IF s = <<>> \/ \E k \in 1..Len(s) : s[k] \notin DOMAIN HexDigit
       THEN [ok |-> FALSE, val |-> 0]
       ELSE [ok |-> TRUE, val |-> HexFold(s, 0)]

\* s[2:]: a run-time panic when s is shorter than two characters.
SliceFrom2(s) ==
    IF Len(s) < 2 THEN [panics |-> TRUE, rest |-> <<>>]
                  ELSE [panics |-> FALSE, rest |-> SubSeq(s, 3, Len(s))]

\* The client's hex getters (GetTotalValidators and the like): the value
\* when the result is longer than two characters and parses, else an error.
ContractInt(answer) ==
    IF ~answer.failed /\ Len(answer.result) > 2
       THEN ParseHex(SubSeq(answer.result, 3, Len(answer.result)))
       ELSE [ok |-> FALSE, val |-> 0]

\* The gate of collectEthereumMetrics, open for every chain.
EthereumEnabled_Always(id) == TRUE

\* The gate of collectEthereumMetrics.
EthereumEnabled(id) == id = GalileoTestnet

\* The variables of collectCosmosMetrics other than the sink.
cosmosVars == <<pc, status, latestBlock, i, validatorStats, scanned, pending, err, fetches>>

\* A step of collectEthereumMetrics that made one call: the position moves
\* to next and obs is sent to the channel.
EthStep(next, obs) ==
    /\ pcEth' = next
    /\ ethCalls' = ethCalls + 1
    /\ sink' = Emit(sink, obs)
    /\ UNCHANGED <<estVars, ovVars, cosmosVars, chainID, collect, expired>>

\* A run-time panic in a goroutine ends the process.
Panic ==
    /\ collect' = "panic"
    /\ ethCalls' = ethCalls + 1
    /\ UNCHANGED <<estVars, ovVars, scanVars, chainID, expired, pcEth, ethIdx>>

\* The gate: another chain returns nil at once.
EthGate ==
    /\ collect = "waiting"
    /\ pcEth = "gate"
    /\ pcEth' = IF EthereumEnabled(chainID) THEN "blockNumber" ELSE "done"
    /\ UNCHANGED <<estVars, ovVars, scanVars, chainID, collect, expired, ethIdx, ethCalls>>

\* A call whose string result is sliced and parsed: nothing is sent when
\* the call fails or the number does not parse.
SlicedCall(answer, next, name, address) ==
    IF answer.failed THEN EthStep(next, <<>>)
    ELSE LET sliced == SliceFrom2(answer.result)
             parsed == ParseHex(sliced.rest)
         IN IF sliced.panics THEN Panic
            ELSE EthStep(next, IF parsed.ok THEN <<Obs(name, address, parsed.val)>>
                                            ELSE <<>>)

\* A call of a hex getter: its value is sent unless it returned an error.
GetterCall(answer, next, name) ==
    LET got == ContractInt(answer)
    IN EthStep(next, IF got.ok THEN <<Obs(name, "", got.val)>> ELSE <<>>)

EthBlockNumber ==
    /\ collect = "waiting"
    /\ pcEth = "blockNumber"
    /\ \E answer \in EthAnswers : SlicedCall(answer, "stakingContract", "ethBlockNumber", "")
    /\ UNCHANGED ethIdx

\* GetBalance of the staking contract: 1 is sent on success, 0 on error.
EthStakingContract ==
    /\ collect = "waiting"
    /\ pcEth = "stakingContract"
    /\ \E answer \in EthAnswers :
        EthStep("balances",
                <<Obs("ethStakingContract", StakingContract, IF answer.failed THEN 0 ELSE 1)>>)
    /\ ethIdx' = 1

\* One iteration of the loop over the configured addresses.
EthAddressBalance ==
    /\ collect = "waiting"
    /\ pcEth = "balances"
    /\ ethIdx <= Len(EthereumAddresses)
    /\ \E answer \in EthAnswers :
        SlicedCall(answer, "balances", "ethValidatorBalance", EthereumAddresses[ethIdx])
    /\ ethIdx' = IF collect' = "panic" THEN ethIdx ELSE ethIdx + 1

EthTotalValidators ==
    /\ collect = "waiting"
    /\ pcEth = "balances"
    /\ ethIdx > Len(EthereumAddresses)
    /\ \E answer \in EthAnswers : GetterCall(answer, "activeValidators", "ethTotalValidators")
    /\ UNCHANGED ethIdx

EthActiveValidators ==
    /\ collect = "waiting"
    /\ pcEth = "activeValidators"
    /\ \E answer \in EthAnswers : GetterCall(answer, "stakingPool", "ethActiveValidators")
    /\ UNCHANGED ethIdx

EthStakingPool ==
    /\ collect = "waiting"
    /\ pcEth = "stakingPool"
    /\ \E answer \in EthAnswers : SlicedCall(answer, "validatorCount", "ethStakingPool", "")
    /\ UNCHANGED ethIdx

EthValidatorCount ==
    /\ collect = "waiting"
    /\ pcEth = "validatorCount"
    /\ \E answer \in EthAnswers : GetterCall(answer, "maxValidators", "ethValidatorCount")
    /\ UNCHANGED ethIdx

\* The last call; collectEthereumMetrics returns nil.
EthMaxValidators ==
    /\ collect = "waiting"
    /\ pcEth = "maxValidators"
    /\ \E answer \in EthAnswers : GetterCall(answer, "done", "ethMaxValidators")
    /\ UNCHANGED ethIdx

\* ---------------------------------------------------------------- Collect
\* Collect has created its context and started both goroutines, and waits
\* in g.Wait(). The node holds no block yet or more: the chain's latest
\* block is one of two.
CollectBlocks ==
    {[proposer_address |-> "v1",
      signatures |-> <<Sig("v1", BlockIDFlagCommit), Sig("v2", BlockIDFlagAbsent),
                       Sig("x", BlockIDFlagCommit)>>]}

InitCollect ==
    /\ InitEstimator(CollectorHistorySize)
    /\ pc = "status"
    /\ status = [ok |-> FALSE, height |-> 0]
    /\ latestBlock \in CollectBlocks
    /\ i = 0
    /\ validatorStats = NewValidatorStats
    /\ scanned = <<>>
    /\ pending = {}
    /\ sink = EmptyBag
    /\ err = "nil"
    /\ fetches = <<>>
    /\ chainID \in {GalileoTestnet, "other"}
    /\ collect = "waiting"
    /\ expired = FALSE
    /\ pcEth = "gate"
    /\ ethIdx = 0
    /\ ethCalls = 0
    /\ NoOther

\* The steps of the goroutine that runs collectCosmosMetrics. The status
\* reports height 0 (or none that parses), so that the scan loop has no
\* iteration.
TaskStatusFails == collect = "waiting" /\ StatusFails

TaskStatusAnswers == collect = "waiting" /\ StatusAnswers /\ status'.height = 0

TaskAggregateStats == collect = "waiting" /\ AggregateStats

TaskFirstValidator == collect = "waiting" /\ FirstValidator

TaskValidatorsFail == collect = "waiting" /\ ValidatorsFail

TaskValidatorsAnswer == collect = "waiting" /\ ValidatorsAnswer

TaskEachValidator == collect = "waiting" /\ EachValidator

TaskFinish == collect = "waiting" /\ Finish

\* The 5 s of the context pass. Neither goroutine reads the context and
\* g.Wait() does not either.
DeadlineExpires ==
    /\ collect = "waiting"
    /\ ~expired
    /\ expired' = TRUE
    /\ UNCHANGED <<estVars, ovVars, scanVars, chainID, collect, pcEth, ethIdx, ethCalls>>

\* g.Wait() returns as soon as either goroutine has returned.
CollectReturns_EitherDone ==
    /\ collect = "waiting"
    /\ pc = "done" \/ pcEth = "done"
    /\ collect' = "returned"
    /\ UNCHANGED <<estVars, ovVars, scanVars, chainID, expired, pcEth, ethIdx, ethCalls>>

\* g.Wait() returns when both goroutines have returned; Collect logs the
\* first error and returns.
CollectReturns ==
    /\ collect = "waiting"
    /\ pc = "done"
    /\ pcEth = "done"
    /\ collect' = "returned"
    /\ UNCHANGED <<estVars, ovVars, scanVars, chainID, expired, pcEth, ethIdx, ethCalls>>

NextCollect ==
    \/ TaskStatusFails
    \/ TaskStatusAnswers
    \/ TaskAggregateStats
    \/ TaskFirstValidator
    \/ TaskValidatorsFail
    \/ TaskValidatorsAnswer
    \/ TaskEachValidator
    \/ TaskFinish
    \/ EthGate
    \/ EthBlockNumber
    \/ EthStakingContract
    \/ EthAddressBalance
    \/ EthTotalValidators
    \/ EthActiveValidators
    \/ EthStakingPool
    \/ EthValidatorCount
    \/ EthMaxValidators
    \/ DeadlineExpires
    \/ CollectReturns

SpecCollect == InitCollect /\ [][NextCollect]_vars

\* ------------------------------------------- the scan at the window's edge
\* Latest heights around the size of the scan window.
WindowHeights == (ScanWindow - MaxOver)..(ScanWindow + MaxOver)

InitWindow ==
    /\ InitScan
    /\ latestBlock \in CollectBlocks

WindowStatusAnswers ==
    /\ pc = "status"
    /\ \E h \in WindowHeights : StatusAnswersWith([ok |-> TRUE, height |-> h])

\* The block source is unreachable throughout the scan, or answers every
\* fetch of it with the latest block.
WindowFetchFails == ScanFetchFails /\ scanned = <<>>

WindowFetches == Len(scanned) = i /\ ScanFetchesBlock(latestBlock)

NextWindow ==
    \/ WindowStatusAnswers
    \/ AggregateStats
    \/ WindowFetchFails
    \/ WindowFetches
    \/ FirstValidator

SpecWindow == InitWindow /\ [][NextWindow]_vars

\* ------------------------------------------------------------ SpecOverlap
\* Collect invocations on one collector. Collect takes no lock and the
\* calculator has none, so the invocations' statements interleave; an
\* invocation is followed through the calculator: time.Now(), the parsed
\* height, UpdateBlockTime (its history part, then its baseline part),
\* GetAverageBlockTime, GetLatestBlockTime.
Scrapes == 1..MaxScrapes

InitOverlap ==
    /\ InitEstimator(CollectorHistorySize)
    /\ ScanIdle /\ CollectIdle /\ NoWallet /\ NoMain
    /\ scrapes = [t \in Scrapes |-> [pos |-> "status", height |-> 0, now |-> 0]]

ScrapeFrame ==
    UNCHANGED <<scanVars, coVars, walletIdx, chains, mainIdx, chain, collectors>>

\* GetStatus answered and the height parsed; currentTime := time.Now().
ScrapeStatus(t) ==
    /\ scrapes[t].pos = "status"
    /\ \E height \in 1..2 :
        scrapes' = [scrapes EXCEPT ![t] =
                        [pos |-> "history", height |-> height, now |-> clock + 1]]
    /\ clock' = clock + 1
    /\ UNCHANGED <<btc, updates, obsTimes, fedHeight, increasing, positive, ret>>
    /\ ScrapeFrame

\* UpdateBlockTime up to the eviction: the interval is appended.
ScrapeHistory(t) ==
    /\ scrapes[t].pos = "history"
    /\ btc' = [btc EXCEPT !.blockTimeHistory =
                UpdateBlockTime(btc, scrapes[t].height, scrapes[t].now).blockTimeHistory]
    /\ scrapes' = [scrapes EXCEPT ![t].pos = "baseline"]
    /\ UNCHANGED <<clock, updates, obsTimes, fedHeight, increasing, positive, ret>>
    /\ ScrapeFrame

\* The rest of UpdateBlockTime: the baseline is assigned.
ScrapeBaseline(t) ==
    /\ scrapes[t].pos = "baseline"
    /\ btc' = [btc EXCEPT !.lastBlockTime   = scrapes[t].now,
                          !.lastBlockHeight = scrapes[t].height]
    /\ scrapes' = [scrapes EXCEPT ![t].pos = "average"]
    /\ updates' = updates + 1
    /\ UNCHANGED <<clock, obsTimes, fedHeight, increasing, positive, ret>>
    /\ ScrapeFrame

ScrapeAverage(t) ==
    /\ scrapes[t].pos = "average"
    /\ ret' = Call("GetAverageBlockTime", t, GetAverageBlockTime(btc))
    /\ scrapes' = [scrapes EXCEPT ![t].pos = "latest"]
    /\ UNCHANGED <<btc, clock, updates, obsTimes, fedHeight, increasing, positive>>
    /\ ScrapeFrame

ScrapeLatest(t) ==
    /\ scrapes[t].pos = "latest"
    /\ ret' = Call("GetLatestBlockTime", t, GetLatestBlockTime(btc))
    /\ scrapes' = [scrapes EXCEPT ![t].pos = "done"]
    /\ UNCHANGED <<btc, clock, updates, obsTimes, fedHeight, increasing, positive>>
    /\ ScrapeFrame

\* A new scrape request arrives for an invocation that has returned.
ScrapeAgain(t) ==
    /\ scrapes[t].pos = "done"
    /\ updates < MaxOverlapUpdates
    /\ scrapes' = [scrapes EXCEPT ![t].pos = "status"]
    /\ UNCHANGED estVars
    /\ ScrapeFrame

NextOverlap ==
    \E t \in Scrapes :
        \/ ScrapeStatus(t)
        \/ ScrapeHistory(t)
        \/ ScrapeBaseline(t)
        \/ ScrapeAverage(t)
        \/ ScrapeLatest(t)
        \/ ScrapeAgain(t)

SpecOverlap == InitOverlap /\ [][NextOverlap]_vars

\* ------------------------------------------------------------- SpecWallet
\* collectCosmosMetrics, the wallet and the governance part: for each wallet
\* of c.cfg.Wallets the balance, the delegations, the rewards and the
\* unbonding entries are asked for and one observation is sent per entry
\* whose amount parses; then the proposals are counted per status.
Wallets == <<"0g1wallet">>

\* c.cfg.TokenDecimals
TokenDecimals == 2

Denoms == {"a0gi", "uatom"}

\* Amount strings: an integer and a decimal (strconv.ParseInt rejects it).
Amounts == {<<"7">>, <<"1", ".", "5">>}

ProposalStatuses == {"PROPOSAL_STATUS_PASSED", "PROPOSAL_STATUS_REJECTED"}

DecDigit(c) ==
    CASE c = "0" -> 0 [] c = "1" -> 1 [] c = "2" -> 2 [] c = "3" -> 3
      [] c = "4" -> 4 [] c = "5" -> 5 [] c = "6" -> 6 [] c = "7" -> 7
      [] c = "8" -> 8 [] c = "9" -> 9 [] OTHER -> -1

RECURSIVE DecFold(_, _)
DecFold(s, acc) ==
    IF s = <<>> THEN [ok |-> TRUE, val |-> acc]
    ELSE IF DecDigit(Head(s)) < 0 THEN [ok |-> FALSE, val |-> 0]
    ELSE DecFold(Tail(s), acc * 10 + DecDigit(Head(s)))

\* strconv.ParseInt(s, 10, 64): an error for the empty string and for a
\* string with a character that is not a digit after the optional sign.
ParseInt(s) ==
    IF s = <<>> THEN [ok |-> FALSE, val |-> 0]
    ELSE IF Head(s) \in {"+", "-"}
        THEN IF Tail(s) = <<>> THEN [ok |-> FALSE, val |-> 0]
             ELSE LET r == DecFold(Tail(s), 0)
                  IN [ok |-> r.ok, val |-> IF Head(s) = "-" THEN -r.val ELSE r.val]
    ELSE DecFold(s, 0)

RECURSIVE Pow10(_)
Pow10(n) == IF n = 0 THEN 1 ELSE 10 * Pow10(n - 1)

\* An observation with the labels (chain_id, address, denom); the value is
\* convertFromBaseUnit(amount, decimals) = amount / 10^decimals.
WalletObs(name, address, denom, amount) ==
    [name |-> name, address |-> address, denom |-> denom,
     value |-> amount, per |-> Pow10(TokenDecimals)]

\* An observation with the labels (chain_id, status).
StatusObs(name, st, count) ==
    [name |-> name, address |-> "", denom |-> st, value |-> count, per |-> 1]

Coins == [Denom : Denoms, Amount : Amounts]

\* Sequences over S of length 0..n.
SeqsTo(S, n) == UNION {[1..k -> S] : k \in 0..n}

RECURSIVE Flatten(_)
Flatten(ss) == IF ss = <<>> THEN <<>> ELSE Head(ss) \o Flatten(Tail(ss))

\* for _, c := range coins: one observation per coin whose amount parses.
CoinObs(name, address, coins) ==
    LET parsed == SelectSeq(coins, LAMBDA c : ParseInt(c.Amount).ok)
    IN [k \in 1..Len(parsed) |->
            WalletObs(name, address, parsed[k].Denom, ParseInt(parsed[k].Amount).val)]

InitWallet ==
    /\ InitEstimator(CollectorHistorySize)
    /\ ScanIdle /\ CollectIdle /\ NoOverlap /\ NoMain
    /\ walletIdx = 1

WalletFrame ==
    UNCHANGED <<estVars, coVars, scrapes, chains, mainIdx, chain, collectors,
                status, latestBlock, i, validatorStats, scanned, pending, err, fetches>>

WalletAt(pos) ==
    /\ walletIdx \in DOMAIN Wallets
    /\ pc = IF pos = "balance" THEN "idle" ELSE pos

\* GetWalletBalance: one observation per balance (the bank module answers
\* with one coin per denomination).
WalletBalance ==
    /\ WalletAt("balance")
    /\ \E ok \in BOOLEAN, balances \in SeqsTo(Coins, MaxEntries) :
        /\ ~ok => balances = <<>>
        /\ \A j, k \in DOMAIN balances : balances[j].Denom = balances[k].Denom => j = k
        /\ sink' = Emit(sink, CoinObs("walletBalance", Wallets[walletIdx], balances))
    /\ pc' = "delegations"
    /\ UNCHANGED walletIdx
    /\ WalletFrame

\* GetWalletDelegations: one observation per delegation response, labelled
\* with the denomination of its balance.
WalletDelegations ==
    /\ WalletAt("delegations")
    /\ \E ok \in BOOLEAN, delegations \in SeqsTo(Coins, MaxEntries) :
        /\ ~ok => delegations = <<>>
        /\ sink' = Emit(sink, CoinObs("walletDelegations", Wallets[walletIdx], delegations))
    /\ pc' = "rewards"
    /\ UNCHANGED walletIdx
    /\ WalletFrame

\* GetWalletRewards: per validator a list of coins; one observation per coin.
WalletRewards ==
    /\ WalletAt("rewards")
    /\ \E ok \in BOOLEAN, rewards \in SeqsTo(SeqsTo(Coins, 1), MaxEntries) :
        /\ ~ok => rewards = <<>>
        /\ sink' = Emit(sink, CoinObs("walletRewards", Wallets[walletIdx], Flatten(rewards)))
    /\ pc' = "unbonding"
    /\ UNCHANGED walletIdx
    /\ WalletFrame

\* GetWalletUnbonding: per validator a list of entries; one observation per
\* entry, all labelled "0G". The next wallet follows, or the governance part.
WalletUnbonding ==
    /\ WalletAt("unbonding")
    /\ \E ok \in BOOLEAN,
          unbonding \in SeqsTo(SeqsTo([Denom : {"0G"}, Amount : Amounts], 1), MaxEntries) :
        /\ ~ok => unbonding = <<>>
        /\ sink' = Emit(sink, CoinObs("walletUnbonding", Wallets[walletIdx], Flatten(unbonding)))
    /\ walletIdx' = walletIdx + 1
    /\ pc' = IF walletIdx < Len(Wallets) THEN "idle" ELSE "governance"
    /\ WalletFrame

\* GetGovernanceProposals: the proposals are counted per status in a map,
\* and one observation is sent per key of the map.
Governance ==
    /\ pc = "governance"
    /\ \E ok \in BOOLEAN, proposals \in SeqsTo(ProposalStatuses, MaxEntries) :
        /\ ~ok => proposals = <<>>
        /\ LET proposalCounts ==
                [st \in {proposals[k] : k \in DOMAIN proposals} |->
                    Cardinality({k \in DOMAIN proposals : proposals[k] = st})]
           IN sink' = sink (+) SetToBag(
                        {StatusObs("consensusProposalReceiveCount", st, proposalCounts[st]) :
                            st \in DOMAIN proposalCounts})
    /\ pc' = "done"
    /\ UNCHANGED walletIdx
    /\ WalletFrame

NextWallet ==
    \/ WalletBalance
    \/ WalletDelegations
    \/ WalletRewards
    \/ WalletUnbonding
    \/ Governance

SpecWallet == InitWallet /\ [][NextWallet]_vars

\* --------------------------------------------------------------- SpecMain
\* main: one collector per chain of cfg.Chains. The image is built with
\* Go 1.21, where a range loop has ONE variable chain for all iterations;
\* NewUnifiedCollector stores the pointer &chain it is given, the client is
\* built from the strings chain.RPC, chain.API, chain.WebSocket.
ChainIDs == {"zgtendermint_16600-2", "other", "third"}

\* A config.Chain, as far as main and the labels use it.
Chain(id) == [ChainID |-> id, RPC |-> <<"rpc", id>>]

\* Sequences over S of length 1..n.
SeqsUpTo(S, n) == UNION {[1..k -> S] : k \in 1..n}

\* What a *config.Chain points to: the loop variable.
LoopVariable == "&chain"

Deref(ptr) == IF ptr = LoopVariable THEN chain ELSE ptr

InitMain ==
    /\ InitEstimator(CollectorHistorySize)
    /\ ScanIdle /\ CollectIdle /\ NoWallet /\ NoOverlap
    /\ chains \in SeqsUpTo({Chain(id) : id \in ChainIDs}, MaxChains)
    /\ mainIdx = 0
    /\ chain = ""
    /\ collectors = <<>>

MainFrame == UNCHANGED <<estVars, scanVars, coVars, walletIdx, scrapes, chains>>

\* for _, chain := range cfg.Chains: the next element is copied into chain.
MainRange ==
    /\ mainIdx < Len(chains)
    /\ Len(collectors) = mainIdx
    /\ mainIdx' = mainIdx + 1
    /\ chain' = chains[mainIdx + 1]
    /\ UNCHANGED collectors
    /\ MainFrame

\* The loop body: rpc.NewClient, NewUnifiedCollector(client, &chain, ...),
\* registry.MustRegister.
MainRegister ==
    /\ Len(collectors) < mainIdx
    /\ collectors' = Append(collectors,
                        [client |-> chain.RPC, cfg |-> LoopVariable, chain_id |-> ""])
    /\ UNCHANGED <<mainIdx, chain>>
    /\ MainFrame

\* A scrape after the loop: collector k labels what it sends with
\* c.cfg.ChainID.
MainCollect ==
    /\ mainIdx = Len(chains)
    /\ Len(collectors) = mainIdx
    /\ \E k \in DOMAIN collectors :
        /\ collectors[k].chain_id = ""
        /\ collectors' = [collectors EXCEPT ![k].chain_id = Deref(collectors[k].cfg).ChainID]
    /\ UNCHANGED <<mainIdx, chain>>
    /\ MainFrame

NextMain ==
    \/ MainRange
    \/ MainRegister
    \/ MainCollect

SpecMain == InitMain /\ [][NextMain]_vars

\* -------------------------------------------------------------- SpecReset
\* A calculator of the small capacity, or of the default one (constructed
\* with size 0), on which updates, SetInitialBlockTime and Reset are called.
InitReset ==
    /\ \E size \in {0, HistorySize} : InitEstimator(size)
    /\ NoScrape

ResetUpdate ==
    /\ updates < MaxResetUpdates
    /\ \E height \in Heights, d \in {1, 3} : DoUpdate(height, d)
    /\ UNCHANGED <<scanVars, coVars, ovVars>>

SetInitialBlockTimeCall ==
    /\ \E blockTime \in {1, 3} :
        /\ btc' = SetInitialBlockTime(btc, blockTime, clock)
        /\ ret' = Call("SetInitialBlockTime", blockTime, 0)
    /\ UNCHANGED <<clock, updates, obsTimes, fedHeight, increasing, positive>>
    /\ UNCHANGED <<scanVars, coVars, ovVars>>

ResetCall ==
    /\ btc' = Reset(btc)
    /\ ret' = Call("Reset", 0, 0)
    /\ UNCHANGED <<clock, updates, obsTimes, fedHeight, increasing, positive>>
    /\ UNCHANGED <<scanVars, coVars, ovVars>>

NextReset ==
    \/ ResetUpdate
    \/ SetInitialBlockTimeCall
    \/ ResetCall

SpecReset == InitReset /\ [][NextReset]_vars

\* ------------------------------------------------------------------- Spec
Init == InitEstimator(HistorySize) /\ NoScrape

Next ==
    \/ Update
    \/ AverageBlockTime
    \/ LatestBlockTime
    \/ BlockTimeStats
    \/ BlocksInDuration
    \/ TimeForBlocks
    \/ BlockTimeStable

Spec == Init /\ [][Next]_vars

\* ------------------------------------------------------------- SpecStable
\* The collector's own calculator (capacity 100) fed one new height per scrape.
InitStable == InitEstimator(CollectorHistorySize) /\ NoScrape

StableUpdate ==
    /\ updates < MaxStableUpdates
    /\ \E d \in StableDeltas : DoUpdate(btc.lastBlockHeight + 1, d)
    /\ UNCHANGED <<scanVars, coVars, ovVars>>

NextStable ==
    \/ StableUpdate
    \/ BlockTimeStable

SpecStable == InitStable /\ [][NextStable]_vars

\* ------------------------------------------------- estimator properties
History == btc.blockTimeHistory

Entries == {History[k] : k \in 1..Len(History)}

Least(S) == CHOOSE x \in S : \A y \in S : x <= y

Greatest(S) == CHOOSE x \in S : \A y \in S : y <= x

\* A step that is one UpdateBlockTime call.
UpdateStep == updates' = updates + 1

\* An UpdateBlockTime call whose height does not exceed the recorded one.
StaleUpdateStep ==
    UpdateStep /\ btc.lastBlockHeight > 0 /\ fedHeight' <= btc.lastBlockHeight

\* C1: UpdateBlockTime with a height <= the last recorded height changes
\* neither the history length nor GetAverageBlockTime().
C1_StaleUpdateKeepsAverage ==
    [][StaleUpdateStep =>
        /\ Len(btc'.blockTimeHistory) = Len(btc.blockTimeHistory)
        /\ GetAverageBlockTime(btc') = GetAverageBlockTime(btc)]_vars

\* A stale update has just acted on a calculator whose average is not zero.
C1_Witness ==
    /\ ret.op = "UpdateBlockTime"
    /\ ret.val > 0
    /\ ret.arg <= ret.val
    /\ GetAverageBlockTime(btc) > 0

\* C2 (as claimed): UpdateBlockTime with a height <= the last recorded
\* height leaves the whole calculator unchanged: history, baseline height
\* and baseline timestamp.
C2_StaleUpdateIsNoOp ==
    [][StaleUpdateStep => btc' = btc]_vars

\* The intervals between consecutive observed timestamps, in call order.
ObservedIntervals == [k \in 1..(updates - 1) |-> obsTimes[k + 1] - obsTimes[k]]

\* The most recent m of them.
LastIntervals(m) == SubSeq(ObservedIntervals, updates - m, updates - 1)

ExpectedLen == Min2(updates - 1, btc.maxHistorySize)

\* C3 (as claimed): after n >= 1 updates with strictly increasing integer
\* heights the history length is min(n-1, capacity).
C3_LengthForIncreasingHeights ==
    (updates >= 1 /\ increasing) => Len(History) = ExpectedLen

\* C3 (amended): after n >= 1 updates with strictly increasing heights that
\* are all positive the history length is min(n-1, capacity).
C3_LengthForIncreasingPositiveHeights ==
    (updates >= 1 /\ increasing /\ positive) => Len(History) = ExpectedLen

\* Increasing positive heights have overflowed the capacity.
C3_Witness ==
    /\ increasing
    /\ positive
    /\ updates - 1 > btc.maxHistorySize
    /\ Len(History) = btc.maxHistorySize

\* C4 (as claimed): after updates with strictly increasing heights the
\* history is, in arrival order, the most recent min(n-1, capacity)
\* differences between consecutive observation timestamps.
C4_HistoryIsLastIntervals ==
    (updates >= 1 /\ increasing) => History = LastIntervals(ExpectedLen)

\* C4 (amended): the same for strictly increasing heights that are all
\* positive; the entry evicted at capacity is the oldest one.
C4_HistoryIsLastIntervalsPositive ==
    (updates >= 1 /\ increasing /\ positive) => History = LastIntervals(ExpectedLen)

\* The oldest interval has been evicted and the remaining ones differ.
C4_Witness ==
    /\ increasing
    /\ positive
    /\ updates - 1 > btc.maxHistorySize
    /\ Len(History) >= 2
    /\ History[1] # History[Len(History)]
    /\ ObservedIntervals[1] # History[1]

\* (max - min) / average < 0.5 over the whole history, the average being
\* GetAverageBlockTime(); a zero average gives no such ratio.
SpreadBelowHalf ==
    LET avg    == GetAverageBlockTime(btc)
        spread == Greatest(Entries) - Least(Entries)
    IN \/ avg > 0 /\ 2 * spread < avg
       \/ avg < 0 /\ 2 * spread > avg

\* C5: IsBlockTimeStable() is true iff the history holds at least 10
\* samples and (max - min) / average < 0.5; it is false below 10 samples.
C5_StableIffEnoughSamplesAndSmallSpread ==
    IsBlockTimeStable(btc) <=> (Len(History) >= 10 /\ SpreadBelowHalf)

\* IsBlockTimeStable() has answered true on a history of unequal samples.
C5_Witness ==
    /\ ret.op = "IsBlockTimeStable"
    /\ ret.val = TRUE
    /\ Len(History) >= 10
    /\ Greatest(Entries) > Least(Entries)

\* q is the quotient of a by b truncated toward zero (b # 0).
IsTruncQuotient(q, a, b) ==
    LET r == a - q * b
    IN Abs(r) < Abs(b) /\ (r = 0 \/ Sign(r) = Sign(a))

\* C6: GetBlockTimeStats() returns the least and greatest entries and the
\* average GetAverageBlockTime() returns (sum / count), so min <= avg <= max;
\* all of them and GetLatestBlockTime() are zero on an empty history.
C6_StatsAreMinAvgMax ==
    LET s == GetBlockTimeStats(btc)
    IN IF Len(History) = 0
       THEN /\ s = [avg |-> 0, min |-> 0, max |-> 0]
            /\ GetAverageBlockTime(btc) = 0
            /\ GetLatestBlockTime(btc) = 0
       ELSE /\ s.min = Least(Entries)
            /\ s.max = Greatest(Entries)
            /\ s.avg = GetAverageBlockTime(btc)
            /\ IsTruncQuotient(s.avg, SumSeq(History), Len(History))
            /\ s.min <= s.avg
            /\ s.avg <= s.max

\* GetBlockTimeStats() has returned an average strictly between min and max.
C6_Witness ==
    /\ ret.op = "GetBlockTimeStats"
    /\ ret.val.min > 0
    /\ ret.val.min < ret.val.avg
    /\ ret.val.avg < ret.val.max

\* C7: EstimateBlocksInDuration(d) and EstimateTimeForBlocks(k) return zero
\* when the average is zero; otherwise d / average (truncated quotient) and
\* average * k.
C7_EstimatesGuardZeroAverage ==
    LET avg == GetAverageBlockTime(btc)
    IN /\ ret.op = "EstimateBlocksInDuration" =>
            IF avg = 0 THEN ret.val = 0
            ELSE IsTruncQuotient(ret.val, ret.arg, avg)
       /\ ret.op = "EstimateTimeForBlocks" =>
            IF avg = 0 THEN ret.val = 0
            ELSE ret.val = avg * ret.arg

\* EstimateBlocksInDuration has answered on a history of all-zero entries.
C7_Witness ==
    /\ ret.op = "EstimateBlocksInDuration"
    /\ Len(History) > 0
    /\ GetAverageBlockTime(btc) = 0
    /\ ret.val = 0

\* ---------------------------------------------- liveness scan properties
\* The scan loop has ended.
ScanEnded == pc \in {"validators", "each", "done"} /\ err # "status"

\* Whether validator v signed the k-th fetched height (flag COMMIT).
SignedAt(v, k) == v \in scanned[k].signers

\* Length of the longest run of consecutive fetched heights v did not sign.
LongestMissRun(v) ==
    LET runs == {<<a, b>> \in (1..Len(scanned)) \X (1..Len(scanned)) :
                    a <= b /\ \A k \in a..b : ~SignedAt(v, k)}
    IN IF runs = {} THEN 0
       ELSE Greatest({r[2] - r[1] + 1 : r \in runs})

\* C8: at the end of the scan, signed + missed of every tracked validator is
\* the number of heights whose fetch succeeded.
C8_SignedPlusMissedIsFetched ==
    ScanEnded =>
        \A v \in Tracked :
            validatorStats[v].signedBlocks + validatorStats[v].missedBlocks
                = Len(scanned)

\* A scan in which a fetch failed, two succeeded, and v1 both signed and
\* missed (once for want of any entry in the signature list).
C8_Witness ==
    /\ ScanEnded
    /\ Len(scanned) = 2
    /\ i = 3
    /\ validatorStats["v1"].signedBlocks = 1
    /\ validatorStats["v1"].missedBlocks = 1
    /\ latestBlock.signatures[1].validator_address # "v1"
    /\ scanned[1].height = status.height

\* C9: signed counts the COMMIT heights, missed the others, and
\* maxConsecutiveMissed is the longest run of consecutive non-COMMIT heights;
\* when every height is missed consecutiveMissed equals it too.
C9_CountersMatchOutcomes ==
    ScanEnded =>
        \A v \in Tracked :
            LET st == validatorStats[v]
                n  == Len(scanned)
            IN /\ st.signedBlocks = Cardinality({k \in 1..n : SignedAt(v, k)})
               /\ st.missedBlocks = Cardinality({k \in 1..n : ~SignedAt(v, k)})
               /\ st.maxConsecutiveMissed = LongestMissRun(v)
               /\ (\A k \in 1..n : ~SignedAt(v, k)) =>
                        st.consecutiveMissed = n /\ st.maxConsecutiveMissed = n

\* v1 went COMMIT, miss, COMMIT over three heights while v2 missed all three.
C9_Witness ==
    /\ ScanEnded
    /\ Len(scanned) = 3
    /\ SignedAt("v1", 1) /\ ~SignedAt("v1", 2) /\ SignedAt("v1", 3)
    /\ validatorStats["v1"].signedBlocks = 2
    /\ validatorStats["v1"].missedBlocks = 1
    /\ validatorStats["v1"].maxConsecutiveMissed = 1
    /\ validatorStats["v2"].consecutiveMissed = 3
    /\ validatorStats["v2"].maxConsecutiveMissed = 3

\* The latest block carries a signature of v with flag ABSENT.
AbsentInLatest(v) ==
    \E k \in 1..Len(latestBlock.signatures) :
        latestBlock.signatures[k] = Sig(v, BlockIDFlagAbsent)

\* The observations the sink holds for metric name and address.
Emitted(name, address) ==
    {o \in BagToSet(sink) : o.name = name /\ o.address = address}

\* C10: when v's signature in the latest block is ABSENT, the missed count
\* and the max-consecutive-missed value emitted for v are 0.
C10_AbsentInLatestReportsZero ==
    \A v \in Tracked :
        AbsentInLatest(v) =>
            /\ \A o \in Emitted("validatorMissedBlocks", v) : o.value = 0
            /\ v = Validators[1] =>
                \A o \in Emitted("tdMissedBlocks", "")
                            \cup Emitted("tdConsecutiveMissed", "") : o.value = 0

\* v1 is ABSENT in the latest block, the scan counted misses for it, and
\* both its observations have been emitted.
C10_Witness ==
    /\ AbsentInLatest("v1")
    /\ validatorStats["v1"].missedBlocks >= 2
    /\ validatorStats["v1"].maxConsecutiveMissed >= 2
    /\ Emitted("validatorMissedBlocks", "v1") # {}
    /\ Emitted("tdConsecutiveMissed", "") # {}

\* ------------------------------------------------- aggregate statistics
\* The aggregate observations have been emitted.
AggregateDone == pc \in {"scan", "validators", "each", "done"} /\ err # "status"

\* Number of entries of sigs that carry flag.
Flagged(sigs, flag) ==
    Cardinality({k \in 1..Len(sigs) : sigs[k].block_id_flag = flag})

\* The one value emitted for the chain-level metric name is value / per.
EmittedIs(name, value, per) ==
    /\ Emitted(name, "") # {}
    /\ \A o \in Emitted(name, "") : o.value * per = value * o.per

\* C11: the aggregate snapshot is computed from the latest block's signature
\* list alone (the empty list when the height did not parse or the fetch
\* failed): total is the number of entries, active the entries with flag
\* COMMIT, inactive the entries with flag ABSENT, active + inactive <= total,
\* and the bonded ratio is active / total, or 0 when total is 0.
C11_AggregateFromLatestBlock ==
    AggregateDone =>
        \E sigs \in {latestBlock.signatures, <<>>} :
            /\ ~status.ok => sigs = <<>>
            /\ EmittedIs("validatorsTotal", Len(sigs), 1)
            /\ EmittedIs("validatorsActive", Flagged(sigs, BlockIDFlagCommit), 1)
            /\ EmittedIs("validatorsInactive", Flagged(sigs, BlockIDFlagAbsent), 1)
            /\ Flagged(sigs, BlockIDFlagCommit) + Flagged(sigs, BlockIDFlagAbsent)
                    <= Len(sigs)
            /\ IF Len(sigs) > 0
                  THEN EmittedIs("validatorsBondedRatio",
                                 Flagged(sigs, BlockIDFlagCommit), Len(sigs))
                  ELSE EmittedIs("validatorsBondedRatio", 0, 1)

\* The latest block has three entries, one COMMIT, one ABSENT and one with
\* another flag, and the snapshot 3, 1, 1, 1/3 has been emitted.
C11_Witness ==
    /\ AggregateDone
    /\ Len(latestBlock.signatures) = 3
    /\ Flagged(latestBlock.signatures, BlockIDFlagCommit) = 1
    /\ Flagged(latestBlock.signatures, BlockIDFlagAbsent) = 1
    /\ Obs("validatorsTotal", "", 3) \in BagToSet(sink)
    /\ Obs("validatorsInactive", "", 1) \in BagToSet(sink)
    /\ ObsRatio("validatorsBondedRatio", 1, 3) \in BagToSet(sink)

\* ------------------------------------------------------ scrape coordinator
\* The metrics collectEthereumMetrics sends.
EthNames ==
    {"ethBlockNumber", "ethStakingContract", "ethValidatorBalance",
     "ethTotalValidators", "ethActiveValidators", "ethStakingPool",
     "ethValidatorCount", "ethMaxValidators"}

\* What the Ethereum path, and what the Cosmos path, has sent to the sink b.
EthPart(b) == [o \in {x \in BagToSet(b) : x.name \in EthNames} |-> b[o]]

CosmosPart(b) == [o \in {x \in BagToSet(b) : x.name \notin EthNames} |-> b[o]]

\* A step of the goroutine of collectEthereumMetrics, of collectCosmosMetrics.
EthTaskStep == pcEth' # pcEth \/ ethIdx' # ethIdx \/ ethCalls' # ethCalls

CosmosTaskStep == pc' # pc \/ pending' # pending

CosmosTask ==
    \/ TaskStatusFails \/ TaskStatusAnswers \/ TaskAggregateStats
    \/ TaskFirstValidator \/ TaskValidatorsFail \/ TaskValidatorsAnswer
    \/ TaskEachValidator \/ TaskFinish

EthTask ==
    \/ EthGate \/ EthBlockNumber \/ EthStakingContract \/ EthAddressBalance
    \/ EthTotalValidators \/ EthActiveValidators \/ EthStakingPool
    \/ EthValidatorCount \/ EthMaxValidators

\* collectCosmosMetrics ran to its end without an error: every observation
\* of the modelled ones is in the sink.
CosmosComplete ==
    /\ \A name \in {"validatorsTotal", "validatorsActive", "validatorsInactive",
                    "validatorsBondedRatio", "tdSignedBlocks", "tdMissedBlocks",
                    "tdConsecutiveMissed", "consensusProposalChain"} :
            Emitted(name, "") # {}
    /\ \A v \in Tracked :
            Emitted("validatorActive", v) # {} /\ Emitted("validatorMissedBlocks", v) # {}

\* C12: the two tasks of one Collect call do not interfere, in any
\* interleaving and whatever calls of the other fail. A step of the Ethereum
\* path leaves the Cosmos path's state and its part of the sink alone, and
\* conversely; while the process runs, neither path is ever held up by the
\* position or the failures of the other; and Collect returns only when both
\* have returned, the Cosmos path's observations complete when it met no
\* error of its own.
C12_TasksDoNotInterfere ==
    /\ [][EthTaskStep =>
            CosmosPart(sink') = CosmosPart(sink) /\ UNCHANGED <<cosmosVars, estVars>>]_vars
    /\ [][CosmosTaskStep =>
            EthPart(sink') = EthPart(sink) /\ UNCHANGED <<pcEth, ethIdx, ethCalls>>]_vars
    /\ [](collect = "waiting" /\ pc # "done" => ENABLED CosmosTask)
    /\ [](collect = "waiting" /\ pcEth # "done" => ENABLED EthTask)
    /\ [](collect = "returned" =>
            /\ pc = "done" /\ pcEth = "done"
            /\ err = "nil" => CosmosComplete)

\* Collect has returned; the staking-contract call of the Ethereum path
\* failed and its block number call yielded nothing, and the Cosmos path
\* sent all its observations, v1 active among them.
C12_Witness ==
    /\ collect = "returned"
    /\ chainID = GalileoTestnet
    /\ Obs("ethStakingContract", StakingContract, 0) \in BagToSet(sink)
    /\ Emitted("ethBlockNumber", "") = {}
    /\ err = "nil"
    /\ CosmosComplete
    /\ Obs("validatorActive", "v1", 1) \in BagToSet(sink)

\* C13: once the 5 s deadline has passed while a task is still running,
\* Collect returns with what has been written so far.
C13_ReturnsAtDeadline ==
    (collect = "waiting" /\ expired /\ (pc # "done" \/ pcEth # "done"))
        => ENABLED CollectReturns

\* C14: Collect completes normally whatever the collaborators answer: no
\* panic.
C14_CollectNeverPanics == collect # "panic"

\* C15: on a chain other than 0g-galileo-testnet the Ethereum path makes no
\* RPC call, sends nothing, and returns without error.
C15_OtherChainEthereumNoOp ==
    chainID # GalileoTestnet =>
        /\ ethCalls = 0
        /\ EthPart(sink) = EmptyBag
        /\ pcEth \in {"gate", "done"}
        /\ collect # "panic"

\* Collect has returned on another chain after the Ethereum path went
\* through its gate, the Cosmos path having sent its observations.
C15_Witness ==
    /\ chainID = "other"
    /\ pcEth = "done"
    /\ collect = "returned"
    /\ ethCalls = 0
    /\ CosmosComplete

\* ------------------------------------------------------ fetches of a scrape
\* The heights asked of GetBlock by the scan loop, in call order.
ScanHeights ==
    LET byScan == SelectSeq(fetches, LAMBDA f : f.by = "scan")
    IN [k \in 1..Len(byScan) |-> byScan[k].height]

\* C16: within one scrape no height is asked of the block source twice.
C16_EachHeightAskedOnce ==
    \A a, b \in 1..Len(fetches) :
        a # b => fetches[a].height # fetches[b].height

\* The step is an iteration of the scan loop whose fetch failed.
FailedScanFetch ==
    /\ Len(fetches') = Len(fetches) + 1
    /\ fetches'[Len(fetches')].by = "scan"
    /\ scanned' = scanned

\* C17: a failed fetch of the scan leaves every counter of every validator
\* unchanged and the loop goes on to the next lower height; when every fetch
\* of the scan failed all counters are zero at its end.
C17_FailedFetchIsSkipped ==
    /\ [][FailedScanFetch =>
            /\ validatorStats' = validatorStats
            /\ pc' = "scan"
            /\ i' = i + 1
            /\ fetches'[Len(fetches')].height = status.height - i]_vars
    /\ [](ScanEnded /\ scanned = <<>> => validatorStats = NewValidatorStats)

\* The fetches of heights 3 and 2 failed, the fetch of height 1 succeeded
\* and was counted.
C17_Witness ==
    /\ ScanEnded
    /\ ScanHeights = <<3, 2, 1>>
    /\ Len(scanned) = 1
    /\ scanned[1].height = 1
    /\ validatorStats["v2"].signedBlocks + validatorStats["v2"].missedBlocks = 1

\* The latest block carries an entry of v whose flag is neither COMMIT nor
\* ABSENT.
OtherInLatest(v) ==
    \E k \in 1..Len(latestBlock.signatures) :
        latestBlock.signatures[k] = Sig(v, BlockIDFlagOther)

\* The scan has fetched the latest block and no other.
OnlyLatestScanned ==
    /\ Len(scanned) = 1
    /\ scanned[1].height = status.height

\* The aggregate total, when a block was counted, is the number of entries of
\* the latest block, entries of any flag included.
TotalCountsEveryEntry ==
    \A o \in Emitted("validatorsTotal", "") :
        o.value > 0 => o.value = Len(latestBlock.signatures)

\* C19 as stated: an entry with another flag is ignored by the liveness scan
\* (no counter of the validator moves at that height) and counts toward the
\* aggregate total.
C19_OtherFlagIgnored ==
    /\ \A v \in Tracked :
        OtherInLatest(v) /\ OnlyLatestScanned =>
            /\ validatorStats[v].signedBlocks = 0
            /\ validatorStats[v].missedBlocks = 0
            /\ validatorStats[v].consecutiveMissed = 0
            /\ validatorStats[v].maxConsecutiveMissed = 0
    /\ TotalCountsEveryEntry

\* C19, amended: an entry of a tracked validator with another flag is counted
\* by the liveness scan as a miss, like ABSENT or no entry (missed and the
\* consecutive-miss counters advance, signed does not), and counts toward the
\* aggregate total.
C19_OtherFlagIsAMiss ==
    /\ \A v \in Tracked :
        OtherInLatest(v) /\ OnlyLatestScanned =>
            /\ validatorStats[v].signedBlocks = 0
            /\ validatorStats[v].missedBlocks = 1
            /\ validatorStats[v].consecutiveMissed = 1
            /\ validatorStats[v].maxConsecutiveMissed = 1
    /\ TotalCountsEveryEntry

\* v1's entry in the latest block has another flag, the scan fetched that
\* block alone, and the aggregate total 3 includes the entry.
C19_Witness ==
    /\ OtherInLatest("v1")
    /\ OnlyLatestScanned
    /\ ScanEnded
    /\ validatorStats["v1"].missedBlocks = 1
    /\ Obs("validatorsTotal", "", 3) \in BagToSet(sink)
    /\ Obs("validatorsActive", "", 1) \in BagToSet(sink)
    /\ Obs("validatorsInactive", "", 1) \in BagToSet(sink)

\* The number of most recent fetched heights (scanned[1] is the highest) that
\* v missed in a row.
CurrentStreak(v) ==
    LET signedAt == {k \in 1..Len(scanned) : SignedAt(v, k)}
    IN IF signedAt = {} THEN Len(scanned) ELSE Least(signedAt) - 1

\* C20: after the scan, consecutiveMissed of a validator is its current
\* streak.
C20_ConsecutiveMissedIsCurrentStreak ==
    ScanEnded =>
        \A v \in Tracked : validatorStats[v].consecutiveMissed = CurrentStreak(v)

\* The larger of two integers.
Max2(a, b) == IF a >= b THEN a ELSE b

\* C18: the scan asks for heights one at a time in strictly descending order
\* from H, never for a height <= 0 and never for more than 100, and when it
\* ends it has asked for exactly the heights from H down to max(1, H - 99).
C18_ScanCoversWindowDescending ==
    /\ \A k \in 1..Len(ScanHeights) :
            /\ ScanHeights[k] = status.height - (k - 1)
            /\ ScanHeights[k] >= 1
    /\ Len(ScanHeights) <= ScanWindow
    /\ ScanEnded =>
            {ScanHeights[k] : k \in 1..Len(ScanHeights)}
                = Max2(1, status.height - (ScanWindow - 1))..status.height

\* The scan of a chain at height 102 has ended after 100 fetches, the last
\* one of height 3.
C18_Witness ==
    /\ ScanEnded
    /\ status.height = ScanWindow + 2
    /\ Len(ScanHeights) = ScanWindow
    /\ ScanHeights[1] = ScanWindow + 2
    /\ ScanHeights[ScanWindow] = 3

\* ---------------------------------------------------------------- proposals
\* The step is an iteration of the scan loop whose fetch succeeded.
FetchedScanStep == Len(scanned') = Len(scanned) + 1

\* The sum of proposals over the tracked validators.
RECURSIVE SumProposals(_)
SumProposals(S) ==
    IF S = {} THEN 0
    ELSE LET v == CHOOSE x \in S : TRUE
         IN validatorStats[v].proposals + SumProposals(S \ {v})

\* C21: a fetched block whose proposer is tracked raises that validator's
\* proposals by one and nobody else's; a block of another proposer raises
\* none; so proposals of v is the number of fetched blocks v proposed and the
\* sum over the tracked validators is at most the number of fetched blocks.
C21_ProposalsCountProposedBlocks ==
    /\ [][FetchedScanStep =>
            \A v \in Tracked :
                validatorStats'[v].proposals =
                    validatorStats[v].proposals
                        + (IF scanned'[Len(scanned')].proposer = v THEN 1 ELSE 0)]_vars
    /\ [](\A v \in Tracked :
            validatorStats[v].proposals =
                Cardinality({k \in 1..Len(scanned) : scanned[k].proposer = v}))
    /\ [](SumProposals(Tracked) <= Len(scanned))

\* Three blocks were fetched; v1 proposed two of them and an address that is
\* not tracked the third.
C21_Witness ==
    /\ ScanEnded
    /\ Len(scanned) = 3
    /\ validatorStats["v1"].proposals = 2
    /\ validatorStats["v2"].proposals = 0
    /\ \E k \in 1..3 : scanned[k].proposer = "x"

\* ------------------------------------------------------- degraded scrapes
\* The status was answered with a latest height that does not parse.
HeightUnparsable == ~status.ok /\ pc \notin {"idle", "status"} /\ err # "status"

\* C23: when the latest height does not parse, the metrics derived from it
\* (aggregate counts and ratio, liveness counters) are not sent, the
\* estimator is not updated and no block is fetched.
C23_UnparsableHeightSkipsDerived ==
    HeightUnparsable =>
        /\ \A name \in {"validatorsTotal", "validatorsActive", "validatorsInactive",
                        "validatorsBondedRatio", "tdSignedBlocks", "tdMissedBlocks",
                        "tdConsecutiveMissed"} : Emitted(name, "") = {}
        /\ updates = 0
        /\ fetches = <<>>

C25_OverrideOnlyWhenAbsent ==
    \A v \in Tracked :
        ~AbsentInLatest(v) =>
            /\ \A o \in Emitted("validatorMissedBlocks", v) :
                    o.value = validatorStats[v].missedBlocks
            /\ v = Validators[1] =>
                    \A o \in Emitted("tdMissedBlocks", "") :
                        o.value = validatorStats[v].missedBlocks

\* C30: no GetBlock call of a scrape passes a height <= 0.
C30_NoFetchAtOrBelowZero ==
    \A k \in 1..Len(fetches) : fetches[k].height > 0

\* --------------------------------------------- Reset, SetInitialBlockTime
\* C26: whatever UpdateBlockTime, SetInitialBlockTime and Reset calls are
\* made, the history is never longer than the capacity, which is the size
\* given at construction or 100 for a size <= 0 and never changes; right
\* after Reset the calculator equals a freshly constructed one, and the
\* update that follows records no interval.
C26_ResetYieldsFreshEstimator ==
    /\ [](Len(btc.blockTimeHistory) <= btc.maxHistorySize)
    /\ [](ret.op = "NewBlockTimeCalculator" =>
            btc.maxHistorySize = IF ret.arg <= 0 THEN DefaultHistorySize ELSE ret.arg)
    /\ [][btc'.maxHistorySize = btc.maxHistorySize]_vars
    /\ [](ret.op = "Reset" => btc = NewBlockTimeCalculator(btc.maxHistorySize))
    /\ [][ret.op = "Reset" /\ ret'.op = "UpdateBlockTime" =>
            /\ btc'.blockTimeHistory = <<>>
            /\ btc'.lastBlockHeight = ret'.arg]_vars

\* Three updates with increasing positive heights, the third of which
\* found baseline height 0 and left the history empty: Reset came before it.
C26_Witness ==
    /\ ret.op = "UpdateBlockTime"
    /\ updates = 3
    /\ increasing /\ positive
    /\ ret.val = 0
    /\ btc.blockTimeHistory = <<>>
    /\ btc.lastBlockHeight = 3

\* ------------------------------------------------------ overlapping scrapes
\* Invocation t is inside the calculator: its update has begun and its last
\* read has not returned.
InEstimator(t) == scrapes[t].pos \in {"baseline", "average", "latest"}

\* C22: the calculator is never entered by two Collect invocations at once.
C22_EstimatorNotReentered ==
    \A t, u \in Scrapes : (InEstimator(t) /\ InEstimator(u)) => t = u

\* ------------------------------------------------------------- descriptors
\* C27: every observation Collect sends carries a descriptor that Describe
\* announced.
C27_CollectSendsOnlyDescribed ==
    \A o \in BagToSet(sink) : o.name \in Describe

\* ------------------------------------------------------------ several chains
\* C29: the collector built for the i-th chain reads the i-th chain's
\* configuration, from the moment it is built and at every scrape.
C29_CollectorReadsItsOwnChain ==
    \A k \in DOMAIN collectors :
        /\ Deref(collectors[k].cfg) = chains[k]
        /\ collectors[k].chain_id \in {"", chains[k].ChainID}

\* ---------------------------------------------------- distinct observations
\* C28: within one scrape no two observations carry the same name with the
\* same label values.
C28_NoDuplicateObservations ==
    \A o \in BagToSet(sink) :
        /\ sink[o] = 1
        /\ \A q \in BagToSet(sink) :
            (q.name = o.name /\ q.address = o.address /\ q.denom = o.denom) => q = o

====
